---- MODULE Spec2Model ----
(***************************************************************************)
(* RainCheck weather dashboard: the event-mediated data flow between the   *)
(* SearchBox, the WeatherCard and the ForecastChart, and the weather API   *)
(* service they call.                                                      *)
(*                                                                         *)
(* Text (query, label, location) is a sequence of one-character strings,   *)
(* so that String.prototype.trim and the template literals are computed.   *)
(* An error message is the sequence of the pieces it is concatenated of.   *)
(* A temperature is held in tenths of a degree, a visibility in meters.    *)
(***************************************************************************)
EXTENDS Integers, Sequences, FiniteSets, TLC

VARIABLES
    apiKey,         \* import.meta.env.VITE_WEATHER_API_KEY is set
    searchBox,      \* SearchBox state: searchQuery, suggestions, localError, suggestLoading
    weatherCard,    \* WeatherCard state: weather, loading, error, lastQuery
    forecastChart,  \* ForecastChart state: data, loading, error
    tasks,          \* async handler executions suspended at their await of the network
    log,            \* the events dispatched on window, in dispatch order
    http,           \* the HTTP requests issued with fetch(), in issue order
    nextId,         \* number of the next user action
    lastOp          \* the handler invocation made by the last step

vars == <<apiKey, searchBox, weatherCard, forecastChart, tasks, log, http, nextId, lastOp>>

----------------------------------------------------------------------------
(* Bounds *)

\* user actions in a run
MaxActions == 3

\* handlers a user action may find suspended when it starts
MaxInFlight == 2

----------------------------------------------------------------------------
(* Text *)

WS == {" "}

RECURSIVE TrimStart(_)
TrimStart(s) ==
    IF s # <<>> /\ Head(s) \in WS THEN TrimStart(Tail(s)) ELSE s

RECURSIVE TrimEnd(_)
TrimEnd(s) ==
    IF s # <<>> /\ s[Len(s)] \in WS THEN TrimEnd(SubSeq(s, 1, Len(s) - 1)) ELSE s

\* a trim that leaves its argument as it is
TrimNothing(s) == s

\* String.prototype.trim
Trim(s) == TrimEnd(TrimStart(s))

\* the values the user types into the input
Queries == { <<>>, <<" ">>, <<"P">>, <<"L", " ">> }

Null == [null |-> TRUE]

\* a rounding that truncates
RoundDown(n, d) == n \div d

\* Math.round on a quotient n/d, n any integer and d > 0: floor(n/d + 1/2)
Round(n, d) == (2 * n + d) \div (2 * d)

\* value || fallback, on message strings.  A message is the sequence of the
\* pieces its template literal concatenates; '' is the empty sequence.
OrElse(value, fallback) == IF value = <<>> THEN fallback ELSE value

----------------------------------------------------------------------------
(* The provider *)

Statuses == {200, 404}

\* response.ok
Ok(status) == status >= 200 /\ status <= 299

Missing == -1

\* 2xx bodies of the current-weather endpoint: main.temp in tenths,
\* visibility (Missing when the field is absent), name and sys.country
\* (empty when sys.country is absent)
Bodies ==
    { [temp |-> 216, visibility |-> 8500,    name |-> <<"P">>, country |-> <<"F">>],
      [temp |-> -25, visibility |-> Missing, name |-> <<"L">>, country |-> <<>>] }

NetworkError == [kind |-> "network"]

HttpResponse(status, json) == [kind |-> "http", status |-> status, json |-> json]

\* the responses to a request whose 2xx bodies are bodies: the transport
\* fails, or a status arrives, with a body when it is a 2xx
Responses(bodies) ==
    {NetworkError}
        \cup {HttpResponse(s, Null) : s \in {t \in Statuses : ~Ok(t)}}
        \cup {HttpResponse(s, b) : s \in {t \in Statuses : Ok(t)}, b \in bodies}

CurrentResponses == Responses(Bodies)

\* results of the geocoding endpoint
Paris == [name |-> <<"P">>, country |-> <<"F">>, lat |-> 48, lon |-> 2]
Lagos == [name |-> <<"L">>, country |-> <<"N">>, lat |-> 6, lon |-> 3]

GeoBodies == { <<>>, <<Paris, Lagos>> }

GeoResponses == Responses(GeoBodies)

\* entries of the forecast endpoint: dt_txt as its date and time parts
Noon == "12:00:00"
ForecastBodies ==
    { << [date |-> 1, time |-> "09:00:00"], [date |-> 1, time |-> Noon],
         [date |-> 2, time |-> Noon] >>,
      << [date |-> 3, time |-> Noon] >> }

ForecastResponses == Responses(ForecastBodies)

----------------------------------------------------------------------------
(* services/weatherApi.ts *)

\* the settlement of a promise: fulfilled with a value, or rejected with an
\* Error of that message; cause is what console.error printed, if anything
Return(value) == [ok |-> TRUE, value |-> value, message |-> <<>>, cause |-> <<>>]
Throw(message) == [ok |-> FALSE, value |-> Null, message |-> message, cause |-> <<>>]
Rethrow(message, caught) ==
    [ok |-> FALSE, value |-> Null, message |-> message, cause |-> caught.message]

NoResponse == [kind |-> "none"]

FetchFailedMessage == <<"Failed to fetch">>

\* a getEnv that returns the key without looking at it
getEnvUnchecked(key) == TRUE

\* getEnv: TRUE when it returns, FALSE when it throws
getEnv(key) == key

getEnvMessage == <<"Weather API key is not configured">>

\* the rejection of `await fetch(url)` and the `if (!response.ok) throw`
\* that follows it; [ok |-> TRUE] when the body is to be read
CheckResponse(response, prefix) ==
    IF response.kind = "network" THEN Throw(FetchFailedMessage)
    ELSE IF ~Ok(response.status) THEN Throw(<<prefix, ToString(response.status)>>)
    ELSE Return(response.json)

\* the WeatherData object built from a current-weather body
MapCurrent(json, location) ==
    [ temperature |-> Round(json.temp, 10),
      visibility  |-> Round(IF json.visibility = Missing THEN 0 ELSE json.visibility, 1000),
      location    |-> location ]

\* fetchCurrentWeather without its catch block: the error thrown in the try
\* block reaches the caller
fetchCurrentWeatherUncaught(key, response) ==
    LET checked == CheckResponse(response, "Weather API error: ")
    IN  IF ~getEnv(key) THEN Throw(getEnvMessage)
        ELSE IF ~checked.ok THEN checked
        ELSE Return(MapCurrent(checked.value,
                 Trim(checked.value.name \o <<",", " ">> \o checked.value.country)))

\* fetchCurrentWeather, from the response its fetch() got (NoResponse when
\* getEnv threw and no request was made)
fetchCurrentWeather(key, response) ==
    LET checked == CheckResponse(response, "Weather API error: ")
        inner ==
            IF ~getEnv(key) THEN Throw(getEnvMessage)
            ELSE IF ~checked.ok THEN checked
            ELSE Return(MapCurrent(checked.value,
                     Trim(checked.value.name \o <<",", " ">> \o checked.value.country)))
    IN  IF inner.ok THEN inner
        ELSE Rethrow(<<"Failed to fetch current weather data">>, inner)

IsNoon(entry) == entry.time = Noon

RECURSIVE Filter(_, _)
Filter(list, n) ==
    IF n = 0 THEN <<>>
    ELSE IF IsNoon(list[n]) THEN Append(Filter(list, n - 1), list[n])
    ELSE Filter(list, n - 1)

\* a slice that keeps the whole array
SliceAll(list, n) == list

\* Array.prototype.slice(0, n)
Slice(list, n) == SubSeq(list, 1, IF Len(list) < n THEN Len(list) ELSE n)

ForecastDays == 5

MapForecast(list) ==
    LET byNoon == Slice(Filter(list, Len(list)), ForecastDays)
    IN  [i \in 1..Len(byNoon) |-> [date |-> byNoon[i].date]]

fetchForecast(key, response) ==
    LET checked == CheckResponse(response, "Forecast API error: ")
        inner ==
            IF ~getEnv(key) THEN Throw(getEnvMessage)
            ELSE IF ~checked.ok THEN checked
            ELSE Return(MapForecast(checked.value))
    IN  IF inner.ok THEN inner
        ELSE Rethrow(<<"Failed to fetch forecast data">>, inner)

\* the limit parameter of the geocoding request
GeoLimit == 5

searchLocations(key, response) ==
    LET checked == CheckResponse(response, "Geo API error: ")
        inner ==
            IF ~getEnv(key) THEN Throw(getEnvMessage)
            ELSE IF ~checked.ok THEN checked
            ELSE Return([i \in 1..Len(checked.value) |->
                     [name |-> checked.value[i].name, country |-> checked.value[i].country,
                      lat |-> checked.value[i].lat, lon |-> checked.value[i].lon]])
    IN  IF inner.ok THEN inner
        ELSE Rethrow(<<"Failed to search locations">>, inner)

----------------------------------------------------------------------------
(* The application state as one value, so that a handler is a function of  *)
(* it and the synchronous dispatch of an event composes with the handler   *)
(* that dispatched it.                                                     *)

State ==
    [ searchBox |-> searchBox, weatherCard |-> weatherCard,
      forecastChart |-> forecastChart, tasks |-> tasks, log |-> log, http |-> http ]

Becomes(s) ==
    /\ searchBox' = s.searchBox
    /\ weatherCard' = s.weatherCard
    /\ forecastChart' = s.forecastChart
    /\ tasks' = s.tasks
    /\ log' = s.log
    /\ http' = s.http

\* fetch(url): the request leaves, and the calling handler is suspended at
\* its await until the response arrives; arg is what the handler holds in
\* its closure
Fetch(s, key, id, kind, endpoint, arg) ==
    [s EXCEPT !.http = Append(@, [id |-> id, by |-> kind, endpoint |-> endpoint, appid |-> key]),
              !.tasks = @ \cup {[id |-> id, kind |-> kind, arg |-> arg]}]

----------------------------------------------------------------------------
(* components/ForecastChart.tsx *)

\* a loadForecast that drops its result while another loadForecast is pending
loadForecastSettledGuarded(s, outcome) ==
    LET fc == s.forecastChart
        after == IF \E task \in s.tasks : task.kind = "loadForecast"
                 THEN fc
                 ELSE IF outcome.ok
                 THEN [fc EXCEPT !.data = outcome.value]
                 ELSE [fc EXCEPT !.error = OrElse(outcome.message, <<"Failed to load forecast">>)]
    IN  [s EXCEPT !.forecastChart = [after EXCEPT !.loading = FALSE]]

\* a loadForecast that reports its failure on the WeatherCard as well
loadForecastSettledLeaking(s, outcome) ==
    LET fc == s.forecastChart
        message == OrElse(outcome.message, <<"Failed to load forecast">>)
        after == IF outcome.ok
                 THEN [fc EXCEPT !.data = outcome.value]
                 ELSE [fc EXCEPT !.error = message]
        s1 == [s EXCEPT !.forecastChart = [after EXCEPT !.loading = FALSE]]
    IN  IF outcome.ok THEN s1
        ELSE [s1 EXCEPT !.weatherCard = [@ EXCEPT !.error = message]]

\* loadForecast after its await: try-result, catch, finally
loadForecastSettled(s, outcome) ==
    LET fc == s.forecastChart
        after == IF outcome.ok
                 THEN [fc EXCEPT !.data = outcome.value]
                 ELSE [fc EXCEPT !.error = OrElse(outcome.message, <<"Failed to load forecast">>)]
    IN  [s EXCEPT !.forecastChart = [after EXCEPT !.loading = FALSE]]

\* loadForecast up to its await
loadForecast(s, key, id, location) ==
    LET s1 == [s EXCEPT !.forecastChart = [@ EXCEPT !.loading = TRUE, !.error = <<>>]]
    IN  IF getEnv(key)
        THEN Fetch(s1, key, id, "loadForecast", "forecast", location)
        ELSE loadForecastSettled(s1, fetchForecast(key, NoResponse))

\* a ForecastChart that also listens for weather:error and shows its message
ForecastChartListenerOnError(s, key, id, name, detail) ==
    IF name = "weather:location-selected"
    THEN loadForecast(s, key, id, detail.location)
    ELSE IF name = "weather:error"
    THEN [s EXCEPT !.forecastChart = [@ EXCEPT !.error = detail.message]]
    ELSE s

\* the listener the ForecastChart registers
ForecastChartListener(s, key, id, name, detail) ==
    IF name = "weather:location-selected"
    THEN loadForecast(s, key, id, detail.location)
    ELSE s

----------------------------------------------------------------------------
(* components/WeatherCard.tsx *)

onCurrentUpdated(wc, detail) == [wc EXCEPT !.weather = detail.data, !.error = <<>>]

\* an onLoading that takes the loading state of any type
onLoadingAnyType(wc, detail) == [wc EXCEPT !.loading = detail.loading]

onLoading(wc, detail) ==
    IF detail.type = "current" THEN [wc EXCEPT !.loading = detail.loading] ELSE wc

\* an onError that also forgets the last known location
onErrorForgetting(wc, detail) ==
    IF detail.type = "current"
    THEN [wc EXCEPT !.error = detail.message, !.lastQuery = <<>>]
    ELSE wc

onError(wc, detail) ==
    IF detail.type = "current" THEN [wc EXCEPT !.error = detail.message] ELSE wc

onLocationSelected(wc, detail) == [wc EXCEPT !.lastQuery = detail.location]

\* the listeners the WeatherCard registers
WeatherCardListener(wc, name, detail) ==
    CASE name = "weather:current-updated"   -> onCurrentUpdated(wc, detail)
      [] name = "weather:loading"           -> onLoading(wc, detail)
      [] name = "weather:error"             -> onError(wc, detail)
      [] name = "weather:location-selected" -> onLocationSelected(wc, detail)
      [] OTHER -> wc

\* window.dispatchEvent(new CustomEvent(name, {detail})): the listeners run
\* synchronously, before dispatchEvent returns
dispatchEvent(s, key, id, name, detail) ==
    LET s1 == [s EXCEPT !.log = Append(@, [id |-> id, name |-> name, detail |-> detail]),
                        !.weatherCard = WeatherCardListener(@, name, detail)]
    IN  ForecastChartListener(s1, key, id, name, detail)

\* a handleRefresh that forgets the location when its fetch fails
handleRefreshSettledForgetting(s, outcome) ==
    LET wc == s.weatherCard
        after == IF outcome.ok
                 THEN [wc EXCEPT !.weather = outcome.value]
                 ELSE [wc EXCEPT !.error = OrElse(outcome.message, <<"Failed to refresh weather">>),
                                 !.lastQuery = <<>>]
    IN  [s EXCEPT !.weatherCard = [after EXCEPT !.loading = FALSE]]

\* handleRefresh after its await
handleRefreshSettled(s, outcome) ==
    LET wc == s.weatherCard
        after == IF outcome.ok
                 THEN [wc EXCEPT !.weather = outcome.value]
                 ELSE [wc EXCEPT !.error = OrElse(outcome.message, <<"Failed to refresh weather">>)]
    IN  [s EXCEPT !.weatherCard = [after EXCEPT !.loading = FALSE]]

\* handleRefresh up to its await; lastQuery is the one of the render the
\* callback was made in
handleRefresh(s, key, id) ==
    LET lastQuery == s.weatherCard.lastQuery
        s1 == [s EXCEPT !.weatherCard = [@ EXCEPT !.loading = TRUE, !.error = <<>>]]
    IN  IF lastQuery = <<>> THEN s
        ELSE IF getEnv(key)
        THEN Fetch(s1, key, id, "handleRefresh", "weather", lastQuery)
        ELSE handleRefreshSettled(s1, fetchCurrentWeather(key, NoResponse))

\* the refresh button is rendered with disabled={loading || !lastQuery}
RefreshEnabled(wc) == ~(wc.loading \/ wc.lastQuery = <<>>)

----------------------------------------------------------------------------
(* components/SearchBox.tsx *)

Loading(flag) == [type |-> "current", loading |-> flag]

\* handleSearch announcing the location before the data, and the error
\* after the end of loading
handleSearchSettledOutOfOrder(s, key, id, query, outcome) ==
    IF outcome.ok
    THEN dispatchEvent(
             dispatchEvent(
                 dispatchEvent(s, key, id, "weather:location-selected", [location |-> Trim(query)]),
                 key, id, "weather:current-updated", [data |-> outcome.value]),
             key, id, "weather:loading", [type |-> "current", loading |-> FALSE])
    ELSE dispatchEvent(
             dispatchEvent(s, key, id, "weather:loading", [type |-> "current", loading |-> FALSE]),
             key, id, "weather:error",
             [type |-> "current", message |-> OrElse(outcome.message, <<"Failed to fetch weather">>)])

\* handleSearch fetching again when its fetch failed
handleSearchSettledRetrying(s, key, id, query, outcome) ==
    IF outcome.ok
    THEN dispatchEvent(
             dispatchEvent(
                 dispatchEvent(s, key, id, "weather:current-updated", [data |-> outcome.value]),
                 key, id, "weather:location-selected", [location |-> Trim(query)]),
             key, id, "weather:loading", [type |-> "current", loading |-> FALSE])
    ELSE Fetch(s, key, id, "handleSearch", "weather", query)

\* handleSearch after its await; query is the searchQuery of the render the
\* handler was made in
handleSearchSettled(s, key, id, query, outcome) ==
    LET s1 == IF outcome.ok
              THEN dispatchEvent(
                       dispatchEvent(s, key, id, "weather:current-updated", [data |-> outcome.value]),
                       key, id, "weather:location-selected", [location |-> Trim(query)])
              ELSE dispatchEvent(s, key, id, "weather:error",
                       [type |-> "current",
                        message |-> OrElse(outcome.message, <<"Failed to fetch weather">>)])
    IN  dispatchEvent(s1, key, id, "weather:loading", Loading(FALSE))

\* handleSearch up to its await
handleSearch(s, key, id) ==
    LET query == s.searchBox.searchQuery
        s1 == dispatchEvent(s, key, id, "weather:loading", Loading(TRUE))
    IN  IF Trim(query) = <<>> THEN s
        ELSE IF getEnv(key)
        THEN Fetch(s1, key, id, "handleSearch", "weather", query)
        ELSE handleSearchSettled(s1, key, id, query, fetchCurrentWeather(key, NoResponse))

\* a loadSuggestions that drops its result while another lookup is pending
loadSuggestionsSettledGuarded(s, outcome) ==
    LET sb == s.searchBox
        after == IF \E task \in s.tasks : task.kind = "loadSuggestions"
                 THEN sb
                 ELSE IF outcome.ok
                 THEN [sb EXCEPT !.suggestions = outcome.value]
                 ELSE [sb EXCEPT !.localError = OrElse(outcome.message, <<"Failed to load suggestions">>)]
    IN  [s EXCEPT !.searchBox = [after EXCEPT !.suggestLoading = FALSE]]

\* a loadSuggestions that empties the list when its lookup fails
loadSuggestionsSettledClearing(s, outcome) ==
    LET sb == s.searchBox
        after == IF outcome.ok
                 THEN [sb EXCEPT !.suggestions = outcome.value]
                 ELSE [sb EXCEPT !.suggestions = <<>>,
                                 !.localError = OrElse(outcome.message, <<"Failed to load suggestions">>)]
    IN  [s EXCEPT !.searchBox = [after EXCEPT !.suggestLoading = FALSE]]

\* loadSuggestions after its await
loadSuggestionsSettled(s, outcome) ==
    LET sb == s.searchBox
        after == IF outcome.ok
                 THEN [sb EXCEPT !.suggestions = outcome.value]
                 ELSE [sb EXCEPT !.localError = OrElse(outcome.message, <<"Failed to load suggestions">>)]
    IN  [s EXCEPT !.searchBox = [after EXCEPT !.suggestLoading = FALSE]]

\* a loadSuggestions that returns on a blank query without clearing the list
loadSuggestionsKeepingList(s, key, id, query) ==
    LET s1 == [s EXCEPT !.searchBox = [@ EXCEPT !.suggestLoading = TRUE, !.localError = <<>>]]
    IN  IF Trim(query) = <<>>
        THEN s
        ELSE IF getEnv(key)
        THEN Fetch(s1, key, id, "loadSuggestions", "geo", query)
        ELSE loadSuggestionsSettled(s1, searchLocations(key, NoResponse))

\* loadSuggestions up to its await
loadSuggestions(s, key, id, query) ==
    LET s1 == [s EXCEPT !.searchBox = [@ EXCEPT !.suggestLoading = TRUE, !.localError = <<>>]]
    IN  IF Trim(query) = <<>>
        THEN [s EXCEPT !.searchBox = [@ EXCEPT !.suggestions = <<>>]]
        ELSE IF getEnv(key)
        THEN Fetch(s1, key, id, "loadSuggestions", "geo", query)
        ELSE loadSuggestionsSettled(s1, searchLocations(key, NoResponse))

handleInputChange(s, key, id, value) ==
    loadSuggestions([s EXCEPT !.searchBox = [@ EXCEPT !.searchQuery = value]], key, id, value)

\* a label of the name alone
cityLabelNameOnly(suggestion) == suggestion.name

\* `${suggestion.name}, ${suggestion.country}`
cityLabel(suggestion) == suggestion.name \o <<",", " ">> \o suggestion.country

\* the data object handleSelectSuggestion builds from the body
MapSelection(json, location) ==
    [ temperature |-> Round(json.temp, 10),
      visibility  |-> Round(IF json.visibility = Missing THEN 0 ELSE json.visibility, 1000),
      location    |-> location ]

\* what the try block of handleSelectSuggestion does with the response
SelectionResult(suggestion, response) ==
    LET checked == CheckResponse(response, "Weather API error: ")
    IN  IF ~checked.ok THEN checked
        ELSE Return(MapSelection(checked.value, cityLabel(suggestion)))

\* handleSelectSuggestion ending the loading in its try block instead of in
\* a finally block
handleSelectSuggestionSettledNoFinally(s, key, id, suggestion, outcome) ==
    IF outcome.ok
    THEN dispatchEvent(
             dispatchEvent(
                 dispatchEvent(s, key, id, "weather:current-updated", [data |-> outcome.value]),
                 key, id, "weather:location-selected", [location |-> cityLabel(suggestion)]),
             key, id, "weather:loading", [type |-> "current", loading |-> FALSE])
    ELSE dispatchEvent(
             [s EXCEPT !.searchBox = [@ EXCEPT !.localError =
                  OrElse(outcome.message, <<"Failed to fetch weather for selection">>)]],
             key, id, "weather:error",
             [type |-> "current",
              message |-> OrElse(outcome.message, <<"Failed to fetch weather">>)])

\* handleSelectSuggestion after its await
handleSelectSuggestionSettled(s, key, id, suggestion, outcome) ==
    LET s1 == IF outcome.ok
              THEN dispatchEvent(
                       dispatchEvent(s, key, id, "weather:current-updated", [data |-> outcome.value]),
                       key, id, "weather:location-selected", [location |-> cityLabel(suggestion)])
              ELSE dispatchEvent(
                       [s EXCEPT !.searchBox = [@ EXCEPT !.localError =
                            OrElse(outcome.message, <<"Failed to fetch weather for selection">>)]],
                       key, id, "weather:error",
                       [type |-> "current",
                        message |-> OrElse(outcome.message, <<"Failed to fetch weather">>)])
    IN  dispatchEvent(s1, key, id, "weather:loading", Loading(FALSE))

\* handleSelectSuggestion up to its await: the request is built from
\* import.meta.env directly, without getEnv
handleSelectSuggestion(s, key, id, suggestion) ==
    LET s1 == [s EXCEPT !.searchBox =
                   [@ EXCEPT !.searchQuery = cityLabel(suggestion), !.suggestions = <<>>]]
        s2 == dispatchEvent(s1, key, id, "weather:loading", Loading(TRUE))
    IN  Fetch(s2, key, id, "handleSelectSuggestion", "weather", suggestion)

\* the suggestion buttons are rendered when !suggestLoading && suggestions.length > 0
Selectable(sb) ==
    IF sb.suggestLoading THEN {} ELSE {sb.suggestions[i] : i \in 1..Len(sb.suggestions)}

----------------------------------------------------------------------------
(* The application *)

Op(op, id, arg, response, outcome) ==
    [op |-> op, id |-> id, arg |-> arg, response |-> response, outcome |-> outcome]

Init ==
    /\ apiKey \in BOOLEAN
    /\ searchBox = [searchQuery |-> <<>>, suggestions |-> <<>>, localError |-> <<>>,
                    suggestLoading |-> FALSE]
    /\ weatherCard = [weather |-> Null, loading |-> FALSE, error |-> <<>>, lastQuery |-> <<>>]
    /\ forecastChart = [data |-> <<>>, loading |-> FALSE, error |-> <<>>]
    /\ tasks = {}
    /\ log = <<>>
    /\ http = <<>>
    /\ nextId = 1
    /\ lastOp = Op("mount", 0, Null, NoResponse, Null)

\* a user action: it gets the next number
Act(op, arg, outcome, s) ==
    /\ nextId <= MaxActions
    /\ Cardinality(tasks) < MaxInFlight
    /\ Becomes(s)
    /\ nextId' = nextId + 1
    /\ lastOp' = Op(op, nextId, arg, NoResponse, outcome)
    /\ UNCHANGED apiKey

\* the resumption of a suspended handler
Resume(op, task, response, outcome, s) ==
    /\ Becomes(s)
    /\ lastOp' = Op(op, task.id, task.arg, response, outcome)
    /\ UNCHANGED <<apiKey, nextId>>

Without(task) == [State EXCEPT !.tasks = @ \ {task}]

\* the user changes the input
InputChange ==
    \E value \in Queries :
        Act("handleInputChange", value,
            IF Trim(value) # <<>> /\ ~getEnv(apiKey)
            THEN searchLocations(apiKey, NoResponse) ELSE Null,
            handleInputChange(State, apiKey, nextId, value))

\* the user submits the form
Submit ==
    Act("handleSearch", searchBox.searchQuery,
        IF Trim(searchBox.searchQuery) # <<>> /\ ~getEnv(apiKey)
        THEN fetchCurrentWeather(apiKey, NoResponse) ELSE Null,
        handleSearch(State, apiKey, nextId))

\* the user clicks a suggestion
Select ==
    \E suggestion \in Selectable(searchBox) :
        Act("handleSelectSuggestion", suggestion, Null,
            handleSelectSuggestion(State, apiKey, nextId, suggestion))

\* the user clicks the refresh button
Refresh ==
    /\ RefreshEnabled(weatherCard)
    /\ Act("handleRefresh", weatherCard.lastQuery,
           IF ~getEnv(apiKey) THEN fetchCurrentWeather(apiKey, NoResponse) ELSE Null,
           handleRefresh(State, apiKey, nextId))

\* the provider answers a request of handleSearch, or the request fails
SearchSettles ==
    \E task \in tasks, response \in CurrentResponses :
        /\ task.kind = "handleSearch"
        /\ LET outcome == fetchCurrentWeather(apiKey, response)
           IN  Resume("handleSearch.settled", task, response, outcome,
                      handleSearchSettled(Without(task), apiKey, task.id, task.arg, outcome))

SelectionSettles ==
    \E task \in tasks, response \in CurrentResponses :
        /\ task.kind = "handleSelectSuggestion"
        /\ LET outcome == SelectionResult(task.arg, response)
           IN  Resume("handleSelectSuggestion.settled", task, response, outcome,
                      handleSelectSuggestionSettled(Without(task), apiKey, task.id, task.arg, outcome))

RefreshSettles ==
    \E task \in tasks, response \in CurrentResponses :
        /\ task.kind = "handleRefresh"
        /\ LET outcome == fetchCurrentWeather(apiKey, response)
           IN  Resume("handleRefresh.settled", task, response, outcome,
                      handleRefreshSettled(Without(task), outcome))

SuggestionsSettle ==
    \E task \in tasks, response \in GeoResponses :
        /\ task.kind = "loadSuggestions"
        /\ LET outcome == searchLocations(apiKey, response)
           IN  Resume("loadSuggestions.settled", task, response, outcome,
                      loadSuggestionsSettled(Without(task), outcome))

ForecastSettles ==
    \E task \in tasks, response \in ForecastResponses :
        /\ task.kind = "loadForecast"
        /\ LET outcome == fetchForecast(apiKey, response)
           IN  Resume("loadForecast.settled", task, response, outcome,
                      loadForecastSettled(Without(task), outcome))

Next ==
    \/ InputChange
    \/ Submit
    \/ Select
    \/ Refresh
    \/ SearchSettles
    \/ SelectionSettles
    \/ RefreshSettles
    \/ SuggestionsSettle
    \/ ForecastSettles

Spec == Init /\ [][Next]_vars

----------------------------------------------------------------------------
(* The service called directly, in any sequence of calls, by a caller that *)
(* awaits each result: the bodies of the three exported functions without  *)
(* the components around them.                                             *)

\* an exported function up to its await of fetch()
Call(s, key, id, kind, endpoint, arg) ==
    IF getEnv(key) THEN Fetch(s, key, id, kind, endpoint, arg) ELSE s

\* what the provider may answer a direct call with: the bodies above, and
\* current-weather bodies on both sides of a rounding boundary, a forecast
\* at 3-hour resolution cut to two samples a day over six days, a forecast
\* without a noon sample, and a geocoding answer longer than the limit the
\* request asks for
Visibilities == {Missing, 0, 499, 500, 8499, 8500}

AdapterBodies ==
    Bodies \cup { [temp |-> 216, visibility |-> v, name |-> <<"P">>, country |-> <<"F">>] :
                      v \in Visibilities }

SixDays ==
    [i \in 1..12 |-> [date |-> (i + 1) \div 2,
                      time |-> IF i % 2 = 1 THEN "09:00:00" ELSE Noon]]

AdapterForecastBodies ==
    ForecastBodies \cup { SixDays, << [date |-> 1, time |-> "09:00:00"] >> }

AdapterGeoBodies ==
    GeoBodies \cup { <<Paris, Lagos, Paris, Lagos, Paris, Lagos>> }

Locations == { <<"P">>, <<"L">> }

CallCurrentWeather ==
    \E location \in Locations :
        Act("fetchCurrentWeather", location,
            IF ~getEnv(apiKey) THEN fetchCurrentWeather(apiKey, NoResponse) ELSE Null,
            Call(State, apiKey, nextId, "fetchCurrentWeather", "weather", location))

CallForecast ==
    \E location \in Locations :
        Act("fetchForecast", location,
            IF ~getEnv(apiKey) THEN fetchForecast(apiKey, NoResponse) ELSE Null,
            Call(State, apiKey, nextId, "fetchForecast", "forecast", location))

CallSearchLocations ==
    \E query \in Locations :
        Act("searchLocations", query,
            IF ~getEnv(apiKey) THEN searchLocations(apiKey, NoResponse) ELSE Null,
            Call(State, apiKey, nextId, "searchLocations", "geo", query))

CurrentWeatherReturns ==
    \E task \in tasks, response \in Responses(AdapterBodies) :
        /\ task.kind = "fetchCurrentWeather"
        /\ Resume("fetchCurrentWeather.settled", task, response,
                  fetchCurrentWeather(apiKey, response), Without(task))

ForecastReturns ==
    \E task \in tasks, response \in Responses(AdapterForecastBodies) :
        /\ task.kind = "fetchForecast"
        /\ Resume("fetchForecast.settled", task, response,
                  fetchForecast(apiKey, response), Without(task))

SearchLocationsReturns ==
    \E task \in tasks, response \in Responses(AdapterGeoBodies) :
        /\ task.kind = "searchLocations"
        /\ Resume("searchLocations.settled", task, response,
                  searchLocations(apiKey, response), Without(task))

AdapterNext ==
    \/ CallCurrentWeather
    \/ CallForecast
    \/ CallSearchLocations
    \/ CurrentWeatherReturns
    \/ ForecastReturns
    \/ SearchLocationsReturns

AdapterSpec == Init /\ [][AdapterNext]_vars

----------------------------------------------------------------------------
(* Properties *)

\* the events an action dispatched, in dispatch order
EventsOf(id) == SelectSeq(log, LAMBDA e : e.id = id)

\* an event without its payload: its name, and the flag of a loading event
Shape(e) == IF e.name = "weather:loading" THEN <<e.name, e.detail.type, e.detail.loading>>
            ELSE <<e.name>>

Shapes(id) ==
    LET events == EventsOf(id)
    IN  [i \in 1..Len(events) |-> Shape(events[i])]

LoadingStart == <<"weather:loading", "current", TRUE>>
LoadingEnd == <<"weather:loading", "current", FALSE>>

Blank(text) == \A i \in 1..Len(text) : text[i] = " "

\* the last step was the end of a handleSearch, reached by a settled fetch
\* or, without an API key, in the step that started it
SearchEnded ==
    /\ lastOp.op \in {"handleSearch", "handleSearch.settled"}
    /\ lastOp.outcome # Null

\* C1: a commit search of a non-blank query whose fetchCurrentWeather
\* succeeds has broadcast exactly loading-start, current-updated,
\* location-selected, loading-end, in this order, and no error.
C1_SearchSuccessBroadcasts ==
    (SearchEnded /\ lastOp.outcome.ok) =>
        /\ ~Blank(lastOp.arg)
        /\ Shapes(lastOp.id) =
               << LoadingStart, <<"weather:current-updated">>,
                  <<"weather:location-selected">>, LoadingEnd >>

C1_Witness ==
    /\ SearchEnded
    /\ lastOp.outcome.ok
    /\ Len(EventsOf(lastOp.id)) = 4

\* C2: a commit search of a non-blank query whose fetchCurrentWeather fails
\* has broadcast exactly loading-start, one error of type "current",
\* loading-end, and neither current-updated nor location-selected.
C2_SearchFailureBroadcasts ==
    (SearchEnded /\ ~lastOp.outcome.ok) =>
        /\ Shapes(lastOp.id) = << LoadingStart, <<"weather:error">>, LoadingEnd >>
        /\ EventsOf(lastOp.id)[2].detail.type = "current"

C2_Witness ==
    /\ lastOp.op = "handleSearch.settled"
    /\ ~lastOp.outcome.ok
    /\ Len(EventsOf(lastOp.id)) = 3

\* C3: the commit of an empty or whitespace-only query broadcasts nothing,
\* issues no request and changes the state of no component.
C3_BlankSearchIsNoOp ==
    [][ (lastOp'.op = "handleSearch" /\ Blank(lastOp'.arg)) =>
            UNCHANGED <<searchBox, weatherCard, forecastChart, tasks, log, http>> ]_vars

C3_Witness ==
    /\ lastOp.op = "handleSearch"
    /\ Blank(lastOp.arg)
    /\ lastOp.arg # <<>>
    /\ apiKey

Started(id) == \E i \in 1..Len(Shapes(id)) : Shapes(id)[i] = LoadingStart
Ended(id) == \E i \in 1..Len(Shapes(id)) : Shapes(id)[i] = LoadingEnd

\* a handleSearch or a handleSelectSuggestion is suspended at its await
Suspended(id) ==
    \E task \in tasks :
        task.id = id /\ task.kind \in {"handleSearch", "handleSelectSuggestion"}

\* the answer to, or the failure of, the request of a suspended handler
\* can be delivered
Resumable(id) ==
    \E task \in tasks :
        /\ task.id = id
        /\ \/ task.kind = "handleSearch" /\ ENABLED SearchSettles
           \/ task.kind = "handleSelectSuggestion" /\ ENABLED SelectionSettles

\* C4: an action that has broadcast loading-start for "current" either is
\* suspended at its await, to be resumed when its request is answered or
\* fails, or has broadcast exactly one loading-end, as its last event and
\* after its one loading-start, whether the fetch succeeded or failed.
C4_LoadingEnds ==
    \A id \in 1..MaxActions :
        LET shapes == Shapes(id)
            starts == {i \in 1..Len(shapes) : shapes[i] = LoadingStart}
            ends == {i \in 1..Len(shapes) : shapes[i] = LoadingEnd}
        IN  starts # {} =>
                /\ starts = {1}
                /\ IF Suspended(id)
                   THEN ends = {} /\ Resumable(id)
                   ELSE ends = {Len(shapes)}

C4_Witness ==
    \E a, b \in 1..MaxActions :
        /\ a # b
        /\ Ended(a) /\ \E i \in 1..Len(Shapes(a)) : Shapes(a)[i] = <<"weather:error">>
        /\ Ended(b) /\ \E i \in 1..Len(Shapes(b)) : Shapes(b)[i] = <<"weather:current-updated">>
        /\ \E h \in 1..Len(http) : http[h].id = b /\ http[h].by = "handleSelectSuggestion"

\* the last step was the end of a handleSelectSuggestion
SelectionEnded == lastOp.op = "handleSelectSuggestion.settled"

\* "Name, Country"
Label(candidate) == candidate.name \o <<",", " ">> \o candidate.country

\* C5: a suggestion selection sets the query text to the label
\* "Name, Country" and empties the suggestion list as it broadcasts
\* loading-start; when its fetch succeeds it has broadcast loading-start,
\* current-updated, location-selected with that label, loading-end, and
\* when it fails loading-start, error, loading-end.
C5_SelectionBroadcasts ==
    /\ lastOp.op = "handleSelectSuggestion" =>
           /\ searchBox.searchQuery = Label(lastOp.arg)
           /\ searchBox.suggestions = <<>>
           /\ Shapes(lastOp.id) = << LoadingStart >>
    /\ (SelectionEnded /\ lastOp.outcome.ok) =>
           /\ Shapes(lastOp.id) =
                  << LoadingStart, <<"weather:current-updated">>,
                     <<"weather:location-selected">>, LoadingEnd >>
           /\ EventsOf(lastOp.id)[3].detail.location = Label(lastOp.arg)
    /\ (SelectionEnded /\ ~lastOp.outcome.ok) =>
           Shapes(lastOp.id) = << LoadingStart, <<"weather:error">>, LoadingEnd >>

C5_Witness ==
    /\ SelectionEnded
    /\ lastOp.outcome.ok
    /\ weatherCard.lastQuery = <<"L", ",", " ", "N">>
    /\ searchBox.searchQuery = weatherCard.lastQuery

AdapterCalls == {"fetchCurrentWeather", "fetchForecast", "searchLocations"}

\* C6: without an API key, every call of fetchCurrentWeather, fetchForecast
\* and searchLocations, the first as well as any later one, fails, and no
\* HTTP request is issued or pending.
C6_NoKeyNoRequest ==
    ~apiKey =>
        /\ http = <<>>
        /\ tasks = {}
        /\ lastOp.op \in AdapterCalls => (lastOp.outcome # Null /\ ~lastOp.outcome.ok)

C6_Witness ==
    /\ ~apiKey
    /\ lastOp.op = "fetchForecast"
    /\ lastOp.id = MaxActions
    /\ ~lastOp.outcome.ok

\* the messages of the failures an operation reports for a response of the
\* provider or a failure of the transport
ProviderErrorMessages ==
    {fetchCurrentWeather(TRUE, r).message :
         r \in {x \in CurrentResponses : ~fetchCurrentWeather(TRUE, x).ok}}
    \cup {fetchForecast(TRUE, r).message :
         r \in {x \in ForecastResponses : ~fetchForecast(TRUE, x).ok}}
    \cup {searchLocations(TRUE, r).message :
         r \in {x \in GeoResponses : ~searchLocations(TRUE, x).ok}}

\* C7: the failure of an adapter operation called without an API key
\* carries the configuration message, on every call, and differs from the
\* failure reported for a non-2xx response or a transport failure.
C7_ConfigurationErrorObserved ==
    (~apiKey /\ lastOp.op \in AdapterCalls) =>
        /\ ~lastOp.outcome.ok
        /\ lastOp.outcome.message = <<"Weather API key is not configured">>
        /\ lastOp.outcome.message \notin ProviderErrorMessages

\* C8: without an API key the application never issues an HTTP request,
\* whatever the user types, commits, selects or refreshes.
C8_NoKeyNoRequestInApp == ~apiKey => http = <<>>

C8_Witness ==
    /\ ~apiKey
    /\ SearchEnded
    /\ lastOp.id = MaxActions
    /\ searchBox.localError # <<>>
    /\ weatherCard.error # <<>>

NonOkAnswer ==
    /\ lastOp.op = "fetchCurrentWeather.settled"
    /\ lastOp.response.kind = "http"
    /\ (lastOp.response.status < 200 \/ lastOp.response.status > 299)

Mentions(message, status) == \E i \in 1..Len(message) : message[i] = ToString(status)

\* C9 as stated: on a status outside 2xx, fetchCurrentWeather fails with an
\* error that carries the status code to its caller.
C9_StatusCarried ==
    NonOkAnswer =>
        /\ ~lastOp.outcome.ok
        /\ Mentions(lastOp.outcome.message, lastOp.response.status)

\* C9, amended: on a status outside 2xx, fetchCurrentWeather fails with the
\* fixed message "Failed to fetch current weather data"; the status code is
\* in the error it logs and not in the one its caller gets.
C9_StatusLoggedOnly ==
    NonOkAnswer =>
        /\ ~lastOp.outcome.ok
        /\ lastOp.outcome.message = <<"Failed to fetch current weather data">>
        /\ ~Mentions(lastOp.outcome.message, lastOp.response.status)
        /\ Mentions(lastOp.outcome.cause, lastOp.response.status)

C9_Witness ==
    /\ NonOkAnswer
    /\ lastOp.response.status = 404
    /\ apiKey

\* the fixed error strings of the operations
GenericMessages ==
    { <<"Failed to fetch current weather data">>, <<"Failed to fetch forecast data">>,
      <<"Failed to search locations">>, <<"Failed to fetch weather">>,
      <<"Failed to fetch weather for selection">>, <<"Failed to load suggestions">>,
      <<"Failed to refresh weather">>, <<"Failed to load forecast">> }

\* C10: every error text that reaches the components, in a weather:error
\* event or in an error string of their state, is one of the fixed strings,
\* and mentions no HTTP status.
C10_GenericErrorTexts ==
    /\ \A i \in 1..Len(log) :
           log[i].name = "weather:error" =>
               /\ log[i].detail.message \in GenericMessages
               /\ \A status \in Statuses : ~Mentions(log[i].detail.message, status)
    /\ \A text \in {searchBox.localError, weatherCard.error, forecastChart.error} :
           /\ text \in GenericMessages \cup {<<>>}
           /\ \A status \in Statuses : ~Mentions(text, status)


\* the requests an action issued to one of these endpoints
RequestsOf(id, endpoints) ==
    {h \in 1..Len(http) : http[h].id = id /\ http[h].endpoint \in endpoints}

Settlements ==
    { "handleSearch.settled", "handleSelectSuggestion.settled", "handleRefresh.settled",
      "loadSuggestions.settled", "loadForecast.settled" }

\* C11: no failure is retried: a commit search, a suggestion lookup, a
\* suggestion selection or a refresh issues at most one current-weather or
\* geocoding request, and at most one forecast request follows from it;
\* a handler whose fetch failed is not suspended again.
C11_NoRetry ==
    /\ \A id \in 1..MaxActions :
           /\ Cardinality(RequestsOf(id, {"weather", "geo"})) <= 1
           /\ Cardinality(RequestsOf(id, {"forecast"})) <= 1
    /\ (lastOp.op \in Settlements /\ ~lastOp.outcome.ok) =>
           \A task \in tasks : task.id # lastOp.id

C11_Witness ==
    /\ lastOp.op = "handleSearch.settled"
    /\ ~lastOp.outcome.ok
    /\ \E id \in 1..MaxActions :
           /\ id # lastOp.id
           /\ RequestsOf(id, {"geo"}) # {}
           /\ \A task \in tasks : task.id # id


\* the positions of the noon samples of a provider time series
NoonSamples(list) == {i \in 1..Len(list) : list[i].time = Noon}

\* the position of the k-th noon sample
NthNoon(list, k) ==
    CHOOSE i \in NoonSamples(list) : Cardinality({j \in NoonSamples(list) : j <= i}) = k

Min(a, b) == IF a < b THEN a ELSE b

ForecastAnswered ==
    /\ lastOp.op = "fetchForecast.settled"
    /\ lastOp.response.kind = "http"
    /\ Ok(lastOp.response.status)

\* C12: for a provider time series with n noon samples, fetchForecast
\* returns min(5, n) points, and its k-th point carries the date of the k-th
\* noon sample in provider order: never more than 5, fewer when fewer noon
\* samples exist, and no point that is not a provider noon sample.
C12_ForecastSubsampling ==
    ForecastAnswered =>
        LET list == lastOp.response.json
            result == lastOp.outcome.value
        IN  /\ lastOp.outcome.ok
            /\ Len(result) = Min(ForecastDays, Cardinality(NoonSamples(list)))
            /\ \A k \in 1..Len(result) :
                   result[k] = [date |-> list[NthNoon(list, k)].date]

C12_Witness ==
    /\ ForecastAnswered
    /\ Cardinality(NoonSamples(lastOp.response.json)) > ForecastDays
    /\ Len(lastOp.outcome.value) = ForecastDays
    /\ lastOp.outcome.value[ForecastDays].date = ForecastDays


\* C13: the sequence searchLocations returns never has more than 5
\* candidates, whatever the provider answers.
C13_AtMostFive ==
    (lastOp.op = "searchLocations.settled" /\ lastOp.outcome.ok) =>
        Len(lastOp.outcome.value) <= GeoLimit


\* a visibility in meters as kilometres: the integer nearest to
\* meters / 1000, the upper one when two are equally near; 0 without the field
Kilometres(meters) ==
    IF meters = Missing THEN 0
    ELSE CHOOSE k \in 0..(meters \div 1000 + 1) :
             /\ 2 * meters >= 2000 * k - 1000
             /\ 2 * meters <  2000 * k + 1000

CurrentAnswered ==
    /\ lastOp.op = "fetchCurrentWeather.settled"
    /\ lastOp.response.kind = "http"
    /\ Ok(lastOp.response.status)

\* C14: the visibility of the record fetchCurrentWeather returns is the
\* provider's visibility in meters divided by 1000 and rounded to the
\* nearest integer, halves up (8500 gives 9), and 0 when the payload has no
\* visibility; the record handleSelectSuggestion builds from the same
\* payload has the same visibility.
C14_VisibilityInKilometres ==
    CurrentAnswered =>
        LET json == lastOp.response.json
            selection == SelectionResult(Paris, lastOp.response)
        IN  /\ lastOp.outcome.ok
            /\ lastOp.outcome.value.visibility = Kilometres(json.visibility)
            /\ selection.ok
            /\ selection.value.visibility = lastOp.outcome.value.visibility

C14_Witness ==
    /\ CurrentAnswered
    /\ lastOp.response.json.visibility = 8500
    /\ lastOp.outcome.value.visibility = 9
    /\ SelectionResult(Paris, lastOp.response).value.visibility = 9


Pending(kind) == {task \in tasks : task.kind = kind}

\* the position in the request log of the request a task waits for
RequestOf(id, by) == CHOOSE h \in 1..Len(http) : http[h].id = id /\ http[h].by = by

\* C15: the forecast fetches race with last write wins: a forecast fetch
\* that resolves puts its result on display whatever other forecast fetches
\* were triggered after it, a pending forecast fetch leaves only by
\* resolving itself, and so a fetch for A that resolves after a later fetch
\* for B overwrites B's result.
C15_ForecastLastWriteWins ==
    [][ /\ \A task \in Pending("loadForecast") :
               task \notin tasks' =>
                   lastOp' = Op("loadForecast.settled", task.id, task.arg,
                                lastOp'.response, lastOp'.outcome)
        /\ lastOp'.op = "loadForecast.settled" =>
               /\ \E task \in Pending("loadForecast") :
                      task.id = lastOp'.id /\ task \notin tasks'
               /\ forecastChart'.data =
                      IF lastOp'.outcome.ok THEN lastOp'.outcome.value
                      ELSE forecastChart.data
      ]_vars

\* the fetch for A resolves with a result after the fetch for B, triggered
\* later for another location, has resolved
C15_Witness ==
    /\ lastOp.op = "loadForecast.settled"
    /\ lastOp.outcome.ok
    /\ forecastChart.data = lastOp.outcome.value
    /\ \E h \in 1..Len(http) :
           /\ http[h].by = "loadForecast"
           /\ h > RequestOf(lastOp.id, "loadForecast")
           /\ \A task \in tasks : task.id # http[h].id


\* C16: every change of the input to a non-blank query issues a lookup,
\* whatever lookups are pending, and a lookup that completes with a result
\* puts it in the suggestion list whatever was typed since: lookups
\* completing out of order are applied in completion order, and the list
\* shown is that of the one that completed last.
C16_LookupsUnguarded ==
    [][ /\ \A task \in Pending("loadSuggestions") :
               task \notin tasks' =>
                   lastOp' = Op("loadSuggestions.settled", task.id, task.arg,
                                lastOp'.response, lastOp'.outcome)
        /\ (lastOp'.op = "handleInputChange" /\ ~Blank(lastOp'.arg) /\ apiKey) =>
               /\ http' = Append(http, [id |-> lastOp'.id, by |-> "loadSuggestions",
                                        endpoint |-> "geo", appid |-> apiKey])
               /\ tasks' = tasks \cup {[id |-> lastOp'.id, kind |-> "loadSuggestions",
                                        arg |-> lastOp'.arg]}
        /\ (lastOp'.op = "loadSuggestions.settled" /\ lastOp'.outcome.ok) =>
               searchBox'.suggestions = lastOp'.outcome.value
      ]_vars

\* the lookup of an earlier keystroke completes after that of a later one,
\* and its candidates are shown under the later query
C16_Witness ==
    /\ lastOp.op = "loadSuggestions.settled"
    /\ lastOp.outcome.ok
    /\ lastOp.outcome.value # <<>>
    /\ searchBox.suggestions = lastOp.outcome.value
    /\ Trim(searchBox.searchQuery) # Trim(lastOp.arg)
    /\ \E h \in 1..Len(http) :
           /\ http[h].by = "loadSuggestions"
           /\ h > RequestOf(lastOp.id, "loadSuggestions")
           /\ \A task \in tasks : task.id # http[h].id


CurrentFetches == {"handleSearch", "handleSelectSuggestion", "handleRefresh"}

\* C17: in every state where a current-weather fetch (of a commit search,
\* a suggestion selection or a refresh) is in flight, refresh is disabled.
C17_RefreshDisabledInFlight ==
    (\E task \in tasks : task.kind \in CurrentFetches) => ~RefreshEnabled(weatherCard)


\* C18: a refresh, from its start to its success or failure, broadcasts no
\* event, triggers no forecast fetch, and leaves the Forecast Display, the
\* Search Controller and the last known location as they were.
C18_RefreshIsLocal ==
    [][ lastOp'.op \in {"handleRefresh", "handleRefresh.settled"} =>
            /\ log' = log
            /\ forecastChart' = forecastChart
            /\ searchBox' = searchBox
            /\ weatherCard'.lastQuery = weatherCard.lastQuery
            /\ \A h \in 1..Len(http') : h > Len(http) => http'[h].endpoint = "weather"
            /\ \A task \in tasks' \ tasks : task.kind = "handleRefresh"
      ]_vars

\* a refresh failed after a search had broadcast its events and started a
\* forecast fetch
C18_Witness ==
    /\ lastOp.op = "handleRefresh.settled"
    /\ ~lastOp.outcome.ok
    /\ weatherCard.error # <<>>
    /\ weatherCard.lastQuery = lastOp.arg
    /\ log # <<>>
    /\ \E h \in 1..Len(http) : http[h].by = "loadForecast"


\* C19: a change of the input to an empty or whitespace-only query empties
\* the suggestion list in the same step and issues no request.
C19_BlankInputClears ==
    [][ (lastOp'.op = "handleInputChange" /\ Blank(lastOp'.arg)) =>
            /\ searchBox'.searchQuery = lastOp'.arg
            /\ searchBox'.suggestions = <<>>
            /\ http' = http
            /\ tasks' = tasks
      ]_vars

\* the input was changed to whitespace after a lookup had been answered
C19_Witness ==
    /\ lastOp.op = "handleInputChange"
    /\ lastOp.arg = <<" ">>
    /\ searchBox.suggestions = <<>>
    /\ tasks = {}
    /\ \E h \in 1..Len(http) : http[h].endpoint = "geo"


\* the step completes a lookup for a non-blank query: its fetch settles, or
\* the adapter rejects before any fetch
LookupCompletes ==
    \/ lastOp'.op = "loadSuggestions.settled"
    \/ lastOp'.op = "handleInputChange" /\ ~Blank(lastOp'.arg) /\ lastOp'.outcome # Null

\* C20: when a lookup for a non-blank query fails, the suggestion error is
\* set to a non-empty message and the suggestion list stays as it was; when
\* it succeeds, the list becomes its result; in both cases no event is
\* broadcast and the suggestion-loading flag is false afterwards.
C20_LookupCompletion ==
    [][ LookupCompletes =>
            /\ log' = log
            /\ ~searchBox'.suggestLoading
            /\ IF lastOp'.outcome.ok
               THEN searchBox'.suggestions = lastOp'.outcome.value
               ELSE /\ searchBox'.localError # <<>>
                    /\ searchBox'.localError = lastOp'.outcome.message
                    /\ searchBox'.suggestions = searchBox.suggestions
      ]_vars

\* a lookup failed while the candidates of an earlier one were listed
C20_Witness ==
    /\ lastOp.op = "loadSuggestions.settled"
    /\ ~lastOp.outcome.ok
    /\ searchBox.localError = <<"Failed to search locations">>
    /\ searchBox.suggestions = <<Paris, Lagos>>
    /\ ~searchBox.suggestLoading


\* the events a step broadcasts, as positions of the log after it
Broadcast == {e \in 1..Len(log') : e > Len(log)}

Selections == {e \in Broadcast : log'[e].name = "weather:location-selected"}

ForecastRequests == {h \in 1..Len(http') : h > Len(http) /\ http'[h].endpoint = "forecast"}

\* C21: the Forecast Display reacts to weather:location-selected alone:
\* a step that broadcasts one starts exactly one forecast fetch, for the
\* location of the payload; a step that broadcasts none and does not
\* complete a forecast fetch starts no forecast fetch and leaves the
\* forecast data, loading flag and error string as they were.
C21_ForecastOnSelectionOnly ==
    [][ /\ Cardinality(ForecastRequests) = Cardinality(Selections)
        /\ \A e \in Selections :
               /\ Cardinality(Selections) = 1
               /\ Pending("loadForecast")' \ Pending("loadForecast") =
                      {[id |-> log'[e].id, kind |-> "loadForecast",
                        arg |-> log'[e].detail.location]}
               /\ forecastChart' = [forecastChart EXCEPT !.loading = TRUE, !.error = <<>>]
        /\ (Selections = {} /\ lastOp'.op # "loadForecast.settled") =>
               /\ forecastChart' = forecastChart
               /\ Pending("loadForecast")' = Pending("loadForecast")
      ]_vars

\* a failed search broadcast its loading and error events after an earlier
\* selection had started a forecast fetch
C21_Witness ==
    /\ lastOp.op = "handleSearch.settled"
    /\ ~lastOp.outcome.ok
    /\ log[Len(log) - 1].name = "weather:error"
    /\ Cardinality(Pending("loadForecast")) = 1
    /\ forecastChart.loading
    /\ Cardinality({e \in 1..Len(log) : log[e].name = "weather:location-selected"}) = 1


\* the last event of that name a step broadcasts, 0 when it broadcasts none
LastBroadcast(name) ==
    LET named == {e \in Broadcast : log'[e].name = name}
    IN  IF named = {} THEN 0 ELSE CHOOSE e \in named : \A f \in named : f <= e

\* the category tags of the loading and error events
Categories == {"current", "forecast"}

\* C22: a weather:current-updated event replaces the conditions of the
\* Current-Weather Display with its payload and clears its error;
\* weather:loading and weather:error set the loading indicator and the error
\* when their type is "current"; an event of another type leaves the
\* display state as it is.
C22_CardListeners ==
    [][ /\ LastBroadcast("weather:current-updated") # 0 =>
               /\ weatherCard'.weather = log'[LastBroadcast("weather:current-updated")].detail.data
               /\ weatherCard'.error = <<>>
        /\ LastBroadcast("weather:loading") # 0 =>
               /\ log'[LastBroadcast("weather:loading")].detail.type = "current"
               /\ weatherCard'.loading = log'[LastBroadcast("weather:loading")].detail.loading
        /\ LastBroadcast("weather:error") # 0 =>
               /\ log'[LastBroadcast("weather:error")].detail.type = "current"
               /\ weatherCard'.error = log'[LastBroadcast("weather:error")].detail.message
               /\ weatherCard'.weather = weatherCard.weather
        /\ \A type \in Categories \ {"current"} :
               /\ WeatherCardListener(weatherCard, "weather:loading",
                      [type |-> type, loading |-> ~weatherCard.loading]) = weatherCard
               /\ WeatherCardListener(weatherCard, "weather:error",
                      [type |-> type, message |-> <<"Failed to fetch forecast data">>]) = weatherCard
      ]_vars

\* a search succeeded after an earlier one had failed: the conditions are
\* its payload and the error is gone
C22_Witness ==
    /\ lastOp.op = "handleSearch.settled"
    /\ lastOp.outcome.ok
    /\ weatherCard.weather = lastOp.outcome.value
    /\ weatherCard.error = <<>>
    /\ ~weatherCard.loading
    /\ \E e \in 1..Len(log) : log[e].name = "weather:error"


\* the last step ended a current-weather fetch in failure: a weather:error
\* of type "current" was broadcast, or a refresh failed
CurrentFetchFailed ==
    /\ lastOp.op \in {"handleSearch.settled", "handleSelectSuggestion.settled",
                      "handleRefresh.settled"}
    /\ ~lastOp.outcome.ok

\* C23: after a weather:error of type "current", or a failed refresh, the
\* Current-Weather Display holds no conditions of an earlier fetch.
C23_ErrorDiscardsConditions ==
    CurrentFetchFailed => weatherCard.weather = Null


\* the step ends a current-weather fetch in failure: the fetch settled, or
\* the adapter rejected before any fetch
CurrentFetchFails ==
    /\ \/ lastOp'.op \in {"handleSearch.settled", "handleSelectSuggestion.settled",
                          "handleRefresh.settled"}
       \/ lastOp'.op \in {"handleSearch", "handleRefresh"} /\ lastOp'.outcome # Null
    /\ ~lastOp'.outcome.ok

\* C24: a failed current-weather fetch (search, selection or refresh)
\* leaves the Forecast Display's data, loading flag and error string and its
\* pending fetches as they were, and a failed forecast fetch leaves the
\* Current-Weather Display's conditions, loading flag, error and last known
\* location as they were.
C24_FetchesIndependent ==
    [][ /\ CurrentFetchFails =>
               /\ forecastChart' = forecastChart
               /\ Pending("loadForecast")' = Pending("loadForecast")
        /\ (lastOp'.op = "loadForecast.settled" /\ ~lastOp'.outcome.ok) =>
               /\ weatherCard' = weatherCard
               /\ \A kind \in CurrentFetches : Pending(kind)' = Pending(kind)
      ]_vars

\* the forecast fetch of a successful search failed: the card shows the
\* conditions and no error, the chart shows the error
C24_Witness ==
    /\ lastOp.op = "loadForecast.settled"
    /\ ~lastOp.outcome.ok
    /\ forecastChart.error # <<>>
    /\ weatherCard.weather # Null
    /\ weatherCard.error = <<>>
    /\ weatherCard.lastQuery = lastOp.arg


\* the payload of the selection event that action broadcast
SelectionPayloads(id) ==
    {log[e].detail.location :
        e \in {f \in 1..Len(log) : log[f].id = id /\ log[f].name = "weather:location-selected"}}

\* C25: the weather:location-selected event of a successful commit search
\* carries the raw text the input held when the search was submitted.
C25_RawQueryPayload ==
    (lastOp.op = "handleSearch.settled" /\ lastOp.outcome.ok) =>
        SelectionPayloads(lastOp.id) = {lastOp.arg}


\* the payload of the most recent weather:location-selected event of a
\* log, empty when there is none
LastSelected(events) ==
    LET selected == {e \in 1..Len(events) : events[e].name = "weather:location-selected"}
    IN  IF selected = {} THEN <<>>
        ELSE events[CHOOSE e \in selected : \A f \in selected : f <= e].detail.location

\* C26: the last known location is empty before the first
\* weather:location-selected event and is the payload of the most recent
\* one ever after; a step that broadcasts none (a failed search, a failed
\* selection, a refresh) leaves it as it was.
C26_LastQueryIsLastSelection ==
    /\ weatherCard.lastQuery = LastSelected(log)
    /\ [][ /\ weatherCard'.lastQuery = LastSelected(log')
           /\ Selections = {} => weatherCard'.lastQuery = weatherCard.lastQuery
         ]_vars

\* a search failed after an earlier one had succeeded
C26_Witness ==
    /\ CurrentFetchFailed
    /\ lastOp.op = "handleSearch.settled"
    /\ weatherCard.lastQuery # <<>>
    /\ weatherCard.lastQuery = LastSelected(log)
    /\ log[Len(log) - 1].name = "weather:error"


\* C27: the suggestion-loading flag is true whenever a suggestion lookup is
\* in flight.
C27_LoadingWhileLookup ==
    Pending("loadSuggestions") # {} => searchBox.suggestLoading


\* C28 as claimed: whenever the query text is blank and no suggestion
\* lookup is in flight, the suggestion list is empty.
C28_BlankQueryEmptyList ==
    (Blank(searchBox.searchQuery) /\ Pending("loadSuggestions") = {}) =>
        searchBox.suggestions = <<>>

\* C28: under a blank query text the suggestion list is empty until a
\* lookup completes with candidates: a step that leaves the query blank and
\* the list non-empty is the completion of a lookup whose result is the
\* list, or it found the query blank and the list as it leaves it.
C28_BlankQueryListFromLookup ==
    [][ (Blank(searchBox'.searchQuery) /\ searchBox'.suggestions # <<>>) =>
            \/ /\ lastOp'.op = "loadSuggestions.settled"
               /\ lastOp'.outcome.ok
               /\ searchBox'.suggestions = lastOp'.outcome.value
               /\ Blank(searchBox.searchQuery)
            \/ /\ Blank(searchBox.searchQuery)
               /\ searchBox'.suggestions = searchBox.suggestions
      ]_vars

\* the lookup for an earlier text completed after the input was cleared and
\* its candidates are listed under the blank input
C28_Witness ==
    /\ lastOp.op = "loadSuggestions.settled"
    /\ ~Blank(lastOp.arg)
    /\ Blank(searchBox.searchQuery)
    /\ searchBox.suggestions = <<Paris, Lagos>>
    /\ Pending("loadSuggestions") = {}
    /\ ~searchBox.suggestLoading


\* C29: once no forecast fetch is in flight, the error string of the
\* Forecast Display is non-empty exactly when the forecast fetch that
\* completed last failed.
C29_ErrorOfLastForecast ==
    (lastOp.op = "loadForecast.settled" /\ Pending("loadForecast") = {}) =>
        (forecastChart.error # <<>> <=> ~lastOp.outcome.ok)


\* the action that broadcast the most recent event of that name, 0 when
\* there is none
LastEventId(events, name) ==
    LET named == {e \in 1..Len(events) : events[e].name = name}
    IN  IF named = {} THEN 0
        ELSE events[CHOOSE e \in named : \A f \in named : f <= e].id

\* nothing is in flight, no search or selection has failed, no refresh was
\* made, and no forecast error is left
QuiescentAfterSuccesses ==
    /\ tasks = {}
    /\ \A e \in 1..Len(log) : log[e].name # "weather:error"
    /\ \A h \in 1..Len(http) : http[h].by # "handleRefresh"
    /\ forecastChart.error = <<>>
    /\ weatherCard.error = <<>>

\* C30 as claimed, in the quiescent states a forecast completion leads to:
\* when all fetches succeeded, the forecast shown, the last known location
\* and the conditions shown come from the same action.
C30_SameOrigin ==
    (QuiescentAfterSuccesses /\ lastOp.op = "loadForecast.settled" /\ lastOp.outcome.ok) =>
        /\ lastOp.id = LastEventId(log, "weather:location-selected")
        /\ lastOp.id = LastEventId(log, "weather:current-updated")

\* C30: each display shows what was written to it last: a search or a
\* selection that succeeds sets the conditions and the last known location
\* together, from its own result and payload, and a forecast fetch that
\* succeeds sets the forecast and nothing of the Current-Weather Display,
\* whichever action it belongs to.
C30_LastCompletionWins ==
    [][ /\ LastEventId(log', "weather:current-updated") =
               LastEventId(log', "weather:location-selected")
        /\ (lastOp'.op \in {"handleSearch.settled", "handleSelectSuggestion.settled"}
                /\ lastOp'.outcome.ok) =>
               /\ weatherCard'.weather = lastOp'.outcome.value
               /\ LastEventId(log', "weather:location-selected") = lastOp'.id
               /\ weatherCard'.lastQuery = LastSelected(log')
        /\ (lastOp'.op = "loadForecast.settled" /\ lastOp'.outcome.ok) =>
               /\ forecastChart'.data = lastOp'.outcome.value
               /\ forecastChart'.error = forecastChart.error
               /\ weatherCard' = weatherCard
      ]_vars

\* all fetches succeeded and nothing is in flight: the forecast shown is
\* that of an earlier action than the one the conditions and the last known
\* location come from
C30_Witness ==
    /\ QuiescentAfterSuccesses
    /\ lastOp.op = "loadForecast.settled"
    /\ lastOp.outcome.ok
    /\ forecastChart.data = lastOp.outcome.value
    /\ lastOp.id < LastEventId(log, "weather:location-selected")
    /\ weatherCard.lastQuery = LastSelected(log)
    /\ weatherCard.lastQuery # lastOp.arg

====
